---- MODULE Spec2Model ----
(***************************************************************************)
(* A model of arbor-py: rooted trees over networkx digraphs (arbor/tree.py,*)
(* arbor/utils/graph.py), their spaced and annotated subclasses            *)
(* (arbor/spaced_tree.py, arbor/arbor.py) and the operations deriving new  *)
(* trees from them.                                                        *)
(*                                                                         *)
(* Conventions.  A python dict is a TLA+ function, a set a set, a list or  *)
(* tuple a sequence.  Optional[TnId] is an integer, None being 0 (node ids *)
(* are nonzero).  An operation that can raise is an operator returning     *)
(* Ok(value) or Raise(exception name).                                     *)
(***************************************************************************)
EXTENDS Integers, Sequences, FiniteSets, TLC

\* ---------------------------------------------------------------- bounds
MaxNodes == 4        \* node ids a caller builds graphs from: 1..MaxNodes
MaxCuts == 2         \* longest argument list handed to cut(...)
MaxTargets == 2      \* largest argument list handed to prune_at(...)

NodeIds == 1..MaxNodes

\* Python's None where the code holds an Optional[TnId]
None == 0

Ok(v) == [raised |-> "", out |-> v]
Raise(e) == [raised |-> e, out |-> <<>>]

\* ------------------------------------------------------- python builtins
Range(s) == {s[i] : i \in DOMAIN s}

Max(S) == CHOOSE x \in S : \A y \in S : y <= x

Min(S) == CHOOSE x \in S : \A y \in S : x <= y

RECURSIVE sorted(_)
sorted(S) ==
    IF S = {} THEN <<>>
    ELSE LET m == Min(S) IN <<m>> \o sorted(S \ {m})

RECURSIVE sorted_reverse(_)
sorted_reverse(S) ==
    IF S = {} THEN <<>>
    ELSE LET m == Max(S) IN <<m>> \o sorted_reverse(S \ {m})

\* ----------------------------------------------------------- nx.DiGraph
\* A DiGraph: its nodes, its edges, and which object it is (obj): "caller"
\* for the graph the caller built and handed to the constructor, "call" for
\* a graph made during the call of a method. add_node, add_edge and
\* remove_edge change the object they are given; a subgraph is a view of
\* it; copy makes a new one.
EmptyGraph == [nodes |-> {}, edges |-> {}, obj |-> "call"]

\* the empty DiGraph the caller starts from
CallerGraph == [EmptyGraph EXCEPT !.obj = "caller"]

\* g.copy() left out: the same object
copy_alias(g) == g

\* g.copy(): a new DiGraph with the nodes and edges of g
copy(g) == [g EXCEPT !.obj = "call"]

add_node(g, n) == [g EXCEPT !.nodes = @ \cup {n}]

add_edge(g, u, v) == [g EXCEPT !.nodes = @ \cup {u, v}, !.edges = @ \cup {<<u, v>>}]

remove_edge(g, u, v) == [g EXCEPT !.edges = @ \ {<<u, v>>}]

successors(g, n) == {e[2] : e \in {x \in g.edges : x[1] = n}}

predecessors(g, n) == {e[1] : e \in {x \in g.edges : x[2] = n}}

in_degree(g, n) == Cardinality(predecessors(g, n))

out_degree(g, n) == Cardinality(successors(g, n))

\* g.subgraph(node_set): a view of g
subgraph(g, node_set) ==
    [nodes |-> g.nodes \cap node_set,
     edges |-> {e \in g.edges : e[1] \in node_set /\ e[2] \in node_set},
     obj |-> g.obj]

\* nodes joined to `seen` by edges taken in either direction
RECURSIVE weak_component(_, _)
weak_component(g, seen) ==
    LET more == {n \in g.nodes \ seen :
                    \E m \in seen : <<m, n>> \in g.edges \/ <<n, m>> \in g.edges}
    IN IF more = {} THEN seen ELSE weak_component(g, seen \cup more)

is_weakly_connected(g) ==
    weak_component(g, {CHOOSE n \in g.nodes : TRUE}) = g.nodes

\* nx.is_tree raises NetworkXPointlessConcept on the null graph; otherwise
\* a digraph is a "tree" when it has n-1 edges and is weakly connected.
is_tree_raises(g) == g.nodes = {}

is_tree(g) == Cardinality(g.nodes) - 1 = Cardinality(g.edges) /\ is_weakly_connected(g)

\* ------------------------------------------------- arbor/utils/graph.py
unique_parent_raises(g, node) == Cardinality(predecessors(g, node)) > 1

unique_parent(g, node) ==
    LET parents == predecessors(g, node)
    IN IF parents = {} THEN None ELSE CHOOSE p \in parents : TRUE

find_root_raises(g) == Cardinality({n \in g.nodes : in_degree(g, n) = 0}) # 1

find_root(g) == CHOOSE n \in g.nodes : in_degree(g, n) = 0

\* <<branches, leaves>>: dict node -> number of children, and set of nodes
find_branches_leaves(g) ==
    <<[n \in {m \in g.nodes : out_degree(g, m) > 1} |-> out_degree(g, n)],
      {n \in g.nodes : out_degree(g, n) = 0}>>

\* the nodes a walk from `node` toward the root passes, `node` included
RECURSIVE path_to_root(_, _)
path_to_root(g, node) ==
    IF node = None THEN <<>>
    ELSE <<node>> \o path_to_root(g, unique_parent(g, node))

path_to_root_raises(g, node) ==
    \E n \in Range(path_to_root(g, node)) : unique_parent_raises(g, n)

\* the (child, parent) pairs of reroot_graph's to_remove, here as the edges
\* <<parent-in-g, child-in-g>> met walking from new_root up to the root
RECURSIVE to_remove(_, _)
to_remove(g, parent) ==
    LET child == unique_parent(g, parent)
    IN IF child = None THEN <<>>
       ELSE <<<<child, parent>>>> \o to_remove(g, child)

RECURSIVE reverse_edges(_, _)
reverse_edges(g, pairs) ==
    IF pairs = <<>> THEN g
    ELSE LET child == pairs[1][1]
             parent == pairs[1][2]
         IN reverse_edges(add_edge(remove_edge(g, child, parent), parent, child),
                          Tail(pairs))

reroot_graph_raises(g, new_root) ==
    new_root \notin g.nodes \/ path_to_root_raises(g, new_root)

\* reroot_graph with its walk stopped after the edge above new_root
reroot_graph_one_edge(g, new_root) ==
    LET pairs == to_remove(g, new_root)
    IN reverse_edges(copy(g), IF pairs = <<>> THEN pairs ELSE <<pairs[1]>>)

reroot_graph(g, new_root) == reverse_edges(copy(g), to_remove(g, new_root))

\* the while loop of dfs_edges: a stack of nodes to visit, the children of
\* the popped node pushed in descending order so the smallest pops first
RECURSIVE dfs_loop(_, _, _)
dfs_loop(g, to_visit, stop_at) ==
    IF to_visit = <<>> THEN <<>>
    ELSE LET this == to_visit[Len(to_visit)]
             rest == SubSeq(to_visit, 1, Len(to_visit) - 1)
             children == sorted_reverse(successors(g, this) \ stop_at)
             parent == unique_parent(g, this)
             later == dfs_loop(g, rest \o children, stop_at)
         IN IF parent # None THEN <<<<parent, this>>>> \o later ELSE later

dfs_edges(g, root, stop_at) ==
    dfs_loop(g, <<IF root = None THEN find_root(g) ELSE root>>, stop_at)

\* the nodes dfs_edges pops
RECURSIVE dfs_visited(_, _, _)
dfs_visited(g, seen, stop_at) ==
    LET more == UNION {successors(g, n) \ stop_at : n \in seen} \ seen
    IN IF more = {} THEN seen ELSE dfs_visited(g, seen \cup more, stop_at)

\* g.successors raises for a node that is not in the graph, unique_parent
\* for a popped node with two parents
dfs_edges_raises(g, root, stop_at) ==
    IF root = None THEN find_root_raises(g)
    ELSE root \notin g.nodes
         \/ \E n \in dfs_visited(g, {root}, stop_at) : unique_parent_raises(g, n)

\* the for loop of find_slabs over the depth-first edges: `slab` is the run
\* being collected, closed when its last node is a branch or a leaf
RECURSIVE find_slabs_loop(_, _, _)
find_slabs_loop(edges, slab, terminators) ==
    IF edges = <<>> THEN <<>>
    ELSE LET parent == edges[1][1]
             child == edges[1][2]
             started == IF slab = <<>> THEN <<parent>> ELSE slab
             grown == Append(started, child)
         IN IF child \in terminators
            THEN <<grown>> \o find_slabs_loop(Tail(edges), <<>>, terminators)
            ELSE find_slabs_loop(Tail(edges), grown, terminators)

\* find_slabs closing its slabs at leaves only
find_slabs_terminators_leaves(branches, leaves) == leaves

find_slabs_terminators(branches, leaves) == leaves \cup DOMAIN branches

find_slabs(g, root, branches, leaves) ==
    find_slabs_loop(dfs_edges(g, root, {}), <<>>,
                    find_slabs_terminators(branches, leaves))

\* <<slab, children of the slab's last node>>
RECURSIVE leafward_slab_loop(_, _)
leafward_slab_loop(g, slab) ==
    LET this_children == sorted(successors(g, slab[Len(slab)]))
    IN IF Len(this_children) > 1 THEN <<slab, this_children>>
       ELSE IF Len(this_children) = 0 THEN <<slab, <<>>>>
       ELSE leafward_slab_loop(g, slab \o this_children)

leafward_slab(g, root) == leafward_slab_loop(g, <<root>>)

\* --------------------------------------------- arbor/utils/classes.py
\* a _key that files every key as it is given
EdgeData_key_as_given(arg) == arg

\* EdgeData._key: the smaller identifier first
EdgeData_key(arg) == IF arg[1] > arg[2] THEN <<arg[2], arg[1]>> ELSE arg

\* EdgeData(): no entries
EdgeData_new == [k \in {} |-> 0]

\* EdgeData.__setitem__
EdgeData_setitem(d, k, v) ==
    [x \in DOMAIN d \cup {EdgeData_key(k)} |-> IF x = EdgeData_key(k) THEN v ELSE d[x]]

\* EdgeData.__getitem__ (KeyError when the slot is empty)
EdgeData_getitem_raises(d, k) == EdgeData_key(k) \notin DOMAIN d

EdgeData_getitem(d, k) == d[EdgeData_key(k)]

\* EdgeData(pairs): a dict built from (key, value) pairs, then update()
RECURSIVE EdgeData_update(_, _)
EdgeData_update(d, items) ==
    IF items = {} THEN d
    ELSE LET it == CHOOSE x \in items : TRUE
         IN EdgeData_update(EdgeData_setitem(d, it[1], it[2]), items \ {it})

\* EdgeData.__delitem__ (KeyError when the slot is empty)
EdgeData_delitem_raises(d, k) == EdgeData_key(k) \notin DOMAIN d

EdgeData_delitem(d, k) == [x \in DOMAIN d \ {EdgeData_key(k)} |-> d[x]]

\* k in data: Mapping.__contains__ tries self[k] and answers False on KeyError
EdgeData_contains(d, k) == ~EdgeData_getitem_raises(d, k)

\* MutableMapping.update(other): self[key] = other[key] for the keys of
\* other in the order other holds them; items lists its (key, value) pairs
RECURSIVE EdgeData_update_items(_, _)
EdgeData_update_items(d, items) ==
    IF items = <<>> THEN d
    ELSE EdgeData_update_items(EdgeData_setitem(d, items[1][1], items[1][2]), Tail(items))

\* EdgeData(other): self._dict = dict(), then self.update(dict(other))
EdgeData_init(items) == EdgeData_update_items(EdgeData_new, items)

\* ------------------------------------------------ arbor/utils/misc.py
\* subset_dict(data, keys[, out]): the entries of data whose key, as data
\* iterates it, is an element of keys
subset_dict(data, keys) == [k \in keys \cap DOMAIN data |-> data[k]]

\* the graph built from slabs, and the slab behind each of its edges
RECURSIVE topological_copy_slabs_loop(_, _, _)
topological_copy_slabs_loop(slabs, g2, full_slabs) ==
    IF slabs = <<>> THEN <<g2, full_slabs>>
    ELSE LET slab == slabs[1]
             u == slab[1]
             v == slab[Len(slab)]
         IN IF Len(slab) = 1
            THEN topological_copy_slabs_loop(Tail(slabs), add_node(g2, u), full_slabs)
            ELSE topological_copy_slabs_loop(Tail(slabs), add_edge(g2, u, v),
                                             EdgeData_setitem(full_slabs, <<u, v>>, slab))

topological_copy_slabs(slabs) ==
    topological_copy_slabs_loop(slabs, EmptyGraph, EdgeData_new)

\* ------------------------------------------------------ the tree classes
\* An instance of Tree, SpacedTree or Arbor: its class and its attributes.
\* A plain Tree has no attribute but graph; a SpacedTree has no
\* edge_confidence, connectors, tags or id.
Instance(cls, skid, g, node_loc, node_radius, edge_confidence, connectors, tags) ==
    [cls |-> cls, id |-> skid, graph |-> g, node_loc |-> node_loc,
     node_radius |-> node_radius, edge_confidence |-> edge_confidence,
     connectors |-> connectors, tags |-> tags]

NoTree == Instance("NoneType", None, EmptyGraph, <<>>, <<>>, <<>>, <<>>, <<>>)

Tree_new(g) == Instance("Tree", None, g, <<>>, <<>>, <<>>, <<>>, <<>>)

SpacedTree_new(g, node_loc, node_radius) ==
    Instance("SpacedTree", None, g, node_loc, node_radius, <<>>, <<>>, <<>>)

\* Tree._validate: the exception it raises, "" when it returns
Tree_validate(self) ==
    IF is_tree_raises(self.graph) THEN "NetworkXPointlessConcept"
    ELSE IF ~is_tree(self.graph) THEN "ValueError"
    ELSE ""

SpacedTree_validate(self) ==
    IF Tree_validate(self) # "" THEN Tree_validate(self)
    ELSE IF self.graph.nodes # DOMAIN self.node_loc THEN "ValueError"
    ELSE IF ~(DOMAIN self.node_radius \subseteq self.graph.nodes) THEN "ValueError"
    ELSE ""

Arbor_validate(self) ==
    LET faux_edata == EdgeData_update(EdgeData_new, {<<k, None>> : k \in self.graph.edges})
        tag_set == UNION {Range(self.tags[k]) : k \in DOMAIN self.tags}
    IN IF SpacedTree_validate(self) # "" THEN SpacedTree_validate(self)
       ELSE IF DOMAIN faux_edata # DOMAIN self.edge_confidence THEN "ValueError"
       ELSE IF ~(DOMAIN self.connectors \subseteq self.graph.nodes) THEN "ValueError"
       ELSE IF ~(tag_set \subseteq self.graph.nodes) THEN "ValueError"
       ELSE ""

\* self._validate(), dispatched on the class
validate(self) ==
    CASE self.cls = "Arbor" -> Arbor_validate(self)
      [] self.cls = "SpacedTree" -> SpacedTree_validate(self)
      [] OTHER -> Tree_validate(self)

\* __init__: the instance, validated unless validate=False
init(self, do_validate) ==
    IF do_validate /\ validate(self) # "" THEN Raise(validate(self)) ELSE Ok(self)

Tree_subcopy(self, node_set) ==
    init(Tree_new(copy(subgraph(self.graph, node_set))), TRUE)

SpacedTree_subcopy(self, node_set) ==
    init(SpacedTree_new(copy(subgraph(self.graph, node_set)),
                        subset_dict(self.node_loc, node_set),
                        subset_dict(self.node_radius, node_set)), TRUE)

Arbor_subcopy(self, node_set) ==
    LET new_g == copy(subgraph(self.graph, node_set))
        tags == [k \in DOMAIN self.tags |->
                    SelectSeq(self.tags[k], LAMBDA item : item \in node_set)]
    IN init(Instance("Arbor", self.id, new_g,
                     subset_dict(self.node_loc, node_set),
                     subset_dict(self.node_radius, node_set),
                     subset_dict(self.edge_confidence, new_g.edges),
                     subset_dict(self.connectors, node_set),
                     tags), FALSE)

\* self._subcopy(node_set), dispatched on the class
subcopy(self, node_set) ==
    CASE self.cls = "Arbor" -> Arbor_subcopy(self, node_set)
      [] self.cls = "SpacedTree" -> SpacedTree_subcopy(self, node_set)
      [] OTHER -> Tree_subcopy(self, node_set)

\* cls.empty(): Tree.empty calls cls(nx.DiGraph()), which SpacedTree's
\* __init__ rejects for its missing arguments; Arbor overrides it
empty(cls) ==
    CASE cls = "Arbor" -> init(Instance("Arbor", None, EmptyGraph,
                                        <<>>, <<>>, EdgeData_new, <<>>, <<>>), FALSE)
      [] cls = "SpacedTree" -> Raise("TypeError")
      [] OTHER -> init(Tree_new(EmptyGraph), TRUE)

\* the root property
Tree_root_raises(self) ==
    Cardinality({n \in self.graph.nodes : in_degree(self.graph, n) = 0}) # 1

Tree_root(self) == CHOOSE n \in self.graph.nodes : in_degree(self.graph, n) = 0

Tree_branches(self) == find_branches_leaves(self.graph)[1]

Tree_leaves(self) == find_branches_leaves(self.graph)[2]

\* strahler_value adding one whatever the count
strahler_value_always_more(succ) ==
    IF DOMAIN succ = {} THEN 1 ELSE Max(DOMAIN succ) + 1

\* one node's value from the Counter of its children's values
strahler_value(succ) ==
    IF DOMAIN succ = {} THEN 1
    ELSE LET val == Max(DOMAIN succ)
             count == succ[val]
         IN IF count > 1 THEN val + 1 ELSE val

RECURSIVE strahler_node(_, _)
strahler_node(g, node) ==
    LET ch == successors(g, node)
        succ == [v \in {strahler_node(g, n) : n \in ch} |->
                    Cardinality({n \in ch : strahler_node(g, n) = v})]
    IN strahler_value(succ)

Tree_calculate_strahler(self) ==
    IF Tree_root_raises(self) THEN Raise("ValueError")
    ELSE Ok([node \in dfs_visited(self.graph, {Tree_root(self)}, {}) |->
                strahler_node(self.graph, node)])

Tree_copy(self) == subcopy(self, self.graph.nodes)

Tree_reroot(self, node) ==
    IF node \notin self.graph.nodes THEN Raise("ValueError")
    ELSE IF Tree_copy(self).raised # "" THEN Tree_copy(self)
    ELSE IF reroot_graph_raises(self.graph, node) THEN Raise("ValueError")
    ELSE Ok([Tree_copy(self).out EXCEPT !.graph = reroot_graph(self.graph, node)])

\* the node set copy_below and cut collect from the depth-first edges
dfs_node_set(g, node, stop_at) ==
    {node} \cup {e[2] : e \in Range(dfs_edges(g, node, stop_at))}

Tree_copy_below(self, node) ==
    IF node \notin self.graph.nodes THEN Raise("NetworkXError")
    ELSE IF dfs_edges_raises(self.graph, node, {}) THEN Raise("ValueError")
    ELSE subcopy(self, dfs_node_set(self.graph, node, {}))

\* the walk stopping at the branch itself instead of the node before it
RECURSIVE prune_branches_walk_to_branch(_, _, _)
prune_branches_walk_to_branch(path, this_n, branches) ==
    IF path = <<>> THEN None
    ELSE IF Head(path) \in branches /\ Head(path) # this_n THEN Head(path)
    ELSE prune_branches_walk_to_branch(Tail(path), Head(path), branches)

\* prune_branches_containing's inner loop over path_to_root(self.graph, nb):
\* the node the walk stood on when it met a branch other than itself, None
\* when the path ends without one
RECURSIVE prune_branches_walk(_, _, _)
prune_branches_walk(path, this_n, branches) ==
    IF path = <<>> THEN None
    ELSE IF Head(path) \in branches /\ Head(path) # this_n THEN this_n
    ELSE prune_branches_walk(Tail(path), Head(path), branches)

\* the set prune_at that prune_branches_containing collects
prune_branches_targets(self, nodes) ==
    {prune_branches_walk(path_to_root(self.graph, nb), nb, DOMAIN Tree_branches(self)) :
        nb \in nodes} \ {None}

\* cut walking below each cut point with no stop set
cut_stop_at_nothing(cut_set) == {}

\* the stop set cut hands to dfs_edges
cut_stop_at(cut_set) == cut_set

\* list(self.cut(*cuts)): every tree the generator yields
Tree_cut(self, cuts) ==
    IF Tree_root_raises(self) THEN Raise("ValueError")
    ELSE LET cut_set == Range(cuts)
             all == IF Tree_root(self) \notin Range(cuts)
                    THEN Append(cuts, Tree_root(self)) ELSE cuts
             one(c) == IF c \notin self.graph.nodes THEN Raise("NetworkXError")
                       ELSE IF dfs_edges_raises(self.graph, c, cut_stop_at(cut_set))
                       THEN Raise("ValueError")
                       ELSE subcopy(self, dfs_node_set(self.graph, c, cut_stop_at(cut_set)))
         IN IF \E i \in DOMAIN all : one(all[i]).raised # ""
            THEN Raise(one(all[Min({i \in DOMAIN all : one(all[i]).raised # ""})]).raised)
            ELSE Ok([i \in DOMAIN all |-> one(all[i]).out])

Tree_slabs(self) ==
    IF Tree_root_raises(self) \/ dfs_edges_raises(self.graph, Tree_root(self), {})
    THEN Raise("ValueError")
    ELSE Ok(find_slabs(self.graph, Tree_root(self), Tree_branches(self), Tree_leaves(self)))

Tree_prune_at(self, nodes) ==
    IF Tree_root_raises(self) THEN Raise("ValueError")
    ELSE IF Tree_root(self) \in nodes THEN empty(self.cls)
    ELSE IF dfs_edges_raises(self.graph, Tree_root(self), nodes) THEN Raise("ValueError")
    ELSE subcopy(self, dfs_node_set(self.graph, Tree_root(self), nodes))

Tree_prune_branches_containing(self, nodes) ==
    IF \E nb \in nodes : nb \notin self.graph.nodes THEN Raise("NetworkXError")
    ELSE IF \E nb \in nodes : path_to_root_raises(self.graph, nb) THEN Raise("ValueError")
    ELSE Tree_prune_at(self, prune_branches_targets(self, nodes))

\* Tree.topological_copy (SpacedTree and Arbor override it)
Tree_topological_copy(self) ==
    IF Tree_slabs(self).raised # "" THEN Tree_slabs(self)
    ELSE init(Tree_new(topological_copy_slabs(Tree_slabs(self).out)[1]), TRUE)

\* ------------------------------------------------- arbor/spaced_tree.py
\* CoordXYZ: a - b and norm().  The root is exact when the sum of squares is
\* a perfect square, as it is for points of one axis.
Coord_sub(a, b) == <<a[1] - b[1], a[2] - b[2], a[3] - b[3]>>

Coord_norm(a) ==
    LET sq == a[1] * a[1] + a[2] * a[2] + a[3] * a[3]
    IN CHOOSE r \in 0..sq : r * r <= sq /\ sq < (r + 1) * (r + 1)

\* the edge_length property reads self.edge_confidence, an attribute that
\* only Arbor.__init__ sets
SpacedTree_edge_length_raises(self) == self.cls # "Arbor"

SpacedTree_edge_length(self) ==
    [k \in DOMAIN self.edge_confidence |->
        Coord_norm(Coord_sub(self.node_loc[k[1]], self.node_loc[k[2]]))]

\* the locals of length_below_branches before its first statement
NoFrame ==
    [pc |-> "idle", caller |-> "", n_branches |-> 0, leaves |-> {}, prev_node |-> None,
     prev_length |-> 0, current_node |-> None, branches |-> <<>>, out |-> <<>>,
     order |-> <<>>]

\* out[k] += v on a defaultdict of 0
defaultdict_add(d, k, v) ==
    [x \in DOMAIN d \cup {k} |->
        IF x = k THEN (IF k \in DOMAIN d THEN d[k] ELSE 0) + v ELSE d[x]]

\* the keys of d from the largest value to the smallest, keys of equal value
\* in the order `order` (the dict's insertion order) has them
RECURSIVE sorted_by_value_reverse(_, _)
sorted_by_value_reverse(order, d) ==
    IF order = <<>> THEN <<>>
    ELSE LET top == Max({d[order[i]] : i \in DOMAIN order})
             first == Min({i \in DOMAIN order : d[order[i]] = top})
             others == [i \in 1..(Len(order) - 1) |->
                          IF i < first THEN order[i] ELSE order[i + 1]]
         IN <<order[first]>> \o sorted_by_value_reverse(others, d)

branches_to_keep(branch_lens, order, n_branches) ==
    LET ranked == sorted_by_value_reverse(order, branch_lens)
    IN {ranked[i] : i \in 1..(IF n_branches < Len(ranked) THEN n_branches ELSE Len(ranked))}

\* the while loop of get_significant_branches.  keep_nodes.union(slab) builds
\* a new set and drops it: keep_nodes is what it was
RECURSIVE significant_loop(_, _, _, _)
significant_loop(g, to_visit, keep_nodes, to_keep) ==
    IF to_visit = <<>> THEN keep_nodes
    ELSE LET found == leafward_slab(g, to_visit[Len(to_visit)])
             slab == found[1]
             children == found[2]
             rest == SubSeq(to_visit, 1, Len(to_visit) - 1)
             dropped == keep_nodes \cup Range(slab)
         IN significant_loop(g,
                IF slab[Len(slab)] \in to_keep THEN rest \o children ELSE rest,
                keep_nodes, to_keep)

\* get_significant_branches from the return of length_below_branches on
SpacedTree_get_significant_branches(self, branch_lens, order, n_branches) ==
    subcopy(self, significant_loop(self.graph, <<Tree_root(self)>>, {Tree_root(self)},
                                   branches_to_keep(branch_lens, order, n_branches)))

\* nx.topological_sort: the nodes, each after its predecessors
RECURSIVE topological_sort_loop(_, _)
topological_sort_loop(g, done) ==
    LET placed == Range(done)
        ready == {n \in g.nodes \ placed : predecessors(g, n) \subseteq placed}
    IN IF ready = {} THEN done
       ELSE topological_sort_loop(g, Append(done, Min(ready)))

topological_sort(g) == topological_sort_loop(g, <<>>)

\* topo_sort_edges: (parent, child) for every sorted node that has a parent
RECURSIVE topo_sort_edges_loop(_, _)
topo_sort_edges_loop(g, order) ==
    IF order = <<>> THEN <<>>
    ELSE LET child == order[1]
             parent == unique_parent(g, child)
             later == topo_sort_edges_loop(g, Tail(order))
         IN IF parent # None THEN <<<<parent, child>>>> \o later ELSE later

topo_sort_edges(g) == topo_sort_edges_loop(g, topological_sort(g))

\* the for loop of distance_from_root over the edges left, from the dict so
\* far.  self.edge_length is first read here.
RECURSIVE distance_from_root_loop(_, _, _)
distance_from_root_loop(self, edges, dists) ==
    IF edges = <<>> THEN Ok(dists)
    ELSE LET parent == edges[1][1]
             child == edges[1][2]
         IN IF SpacedTree_edge_length_raises(self) THEN Raise("AttributeError")
            ELSE IF parent \notin DOMAIN dists
                    \/ EdgeData_getitem_raises(SpacedTree_edge_length(self),
                                               <<parent, child>>)
            THEN Raise("KeyError")
            ELSE distance_from_root_loop(self, Tail(edges),
                    defaultdict_add(dists, child,
                        dists[parent]
                        + EdgeData_getitem(SpacedTree_edge_length(self),
                                           <<parent, child>>)))

\* the distance_from_root property
SpacedTree_distance_from_root(self) ==
    IF Tree_root_raises(self) THEN Raise("ValueError")
    ELSE distance_from_root_loop(self, topo_sort_edges(self.graph),
                                 [n \in {Tree_root(self)} |-> 0])

\* the edge_length property, as a call
SpacedTree_edge_length_call(self) ==
    IF SpacedTree_edge_length_raises(self) THEN Raise("AttributeError")
    ELSE Ok(SpacedTree_edge_length(self))

\* path_edge_data: the values of edge_data along the edges of path
path_edge_data_raises(path, edge_data) ==
    \E i \in 1..(Len(path) - 1) :
        EdgeData_getitem_raises(edge_data, <<path[i], path[i + 1]>>)

path_edge_data(path, edge_data) ==
    [i \in 1..(Len(path) - 1) |-> EdgeData_getitem(edge_data, <<path[i], path[i + 1]>>)]

\* g.edges(), as a list: by parent, then by child
RECURSIVE edge_list(_)
edge_list(edges) ==
    IF edges = {} THEN <<>>
    ELSE LET first == CHOOSE e \in edges :
                        \A f \in edges : e[1] < f[1] \/ (e[1] = f[1] /\ e[2] <= f[2])
         IN <<first>> \o edge_list(edges \ {first})

\* the for loop of Arbor.topological_copy over the edges of the copy: the
\* confidences along a slab are looked up in edge_confidence, the local
\* EdgeData the loop is filling, which hides self.edge_confidence
RECURSIVE Arbor_topological_copy_loop(_, _, _, _, _)
Arbor_topological_copy_loop(edges, slabs, dists, edge_length, edge_confidence) ==
    IF edges = <<>> THEN Ok([edge_length |-> edge_length,
                             edge_confidence |-> edge_confidence])
    ELSE LET u == edges[1][1]
             v == edges[1][2]
             path == EdgeData_getitem(slabs, <<u, v>>)
         IN IF path_edge_data_raises(path, edge_confidence) THEN Raise("KeyError")
            ELSE IF Len(path) < 2 THEN Raise("ValueError")
            ELSE Arbor_topological_copy_loop(Tail(edges), slabs, dists,
                    EdgeData_setitem(edge_length, <<u, v>>, dists[v] - dists[u]),
                    EdgeData_setitem(edge_confidence, <<u, v>>,
                                     Min(Range(path_edge_data(path, edge_confidence)))))

\* Arbor.topological_copy: the new instance and the _edge_length it is given
Arbor_topological_copy(self) ==
    IF Tree_slabs(self).raised # "" THEN Tree_slabs(self)
    ELSE IF SpacedTree_distance_from_root(self).raised # ""
    THEN SpacedTree_distance_from_root(self)
    ELSE LET copied == topological_copy_slabs(Tree_slabs(self).out)
             g == copied[1]
             filled == Arbor_topological_copy_loop(edge_list(g.edges), copied[2],
                          SpacedTree_distance_from_root(self).out,
                          EdgeData_new, EdgeData_new)
         IN IF filled.raised # "" THEN filled
            ELSE Ok([new |-> Instance("Arbor", self.id, g,
                                      subset_dict(self.node_loc, g.nodes),
                                      subset_dict(self.node_loc, g.nodes),
                                      filled.out.edge_confidence,
                                      subset_dict(self.connectors, g.nodes),
                                      [k \in DOMAIN self.tags |->
                                          SelectSeq(self.tags[k], LAMBDA item : item \in g.nodes)]),
                     edge_length |-> filled.out.edge_length])

\* SpacedTree.topological_copy.  subset_dict is handed g.nodes(), a NodeView,
\* which has no intersection method
SpacedTree_topological_copy(self) ==
    IF Tree_slabs(self).raised # "" THEN Tree_slabs(self)
    ELSE IF SpacedTree_distance_from_root(self).raised # ""
    THEN SpacedTree_distance_from_root(self)
    ELSE Raise("AttributeError")

\* self.topological_copy(), by class
topological_copy(self) ==
    CASE self.cls = "Arbor" -> Arbor_topological_copy(self)
      [] self.cls = "SpacedTree" -> SpacedTree_topological_copy(self)
      [] OTHER -> Tree_topological_copy(self)

\* id_gen(start, skip): the next identifier yielded, the first from start on
\* that skip does not hold
RECURSIVE id_gen(_, _)
id_gen(start, skip) == IF start \in skip THEN id_gen(start + 1, skip) ELSE start

\* the length of a linestring: the sum of the norms of its steps
RECURSIVE linestring_length(_)
linestring_length(linestring) ==
    IF Len(linestring) < 2 THEN 0
    ELSE Coord_norm(Coord_sub(linestring[2], linestring[1]))
         + linestring_length(Tail(linestring))

\* resample_linestring.  n_samples = ceil(length / max_edge_len) + 1; below
\* three samples the linestring is returned as it is.  Otherwise the cubic
\* interp1d asks for four points at least, and the samples must fit the
\* interior they are assigned to (as many, or one broadcast); the head and
\* the tail do not move, and an interior sample is written here as the
\* point of the x axis at its share of the way from the head to the tail
resample_linestring(linestring, max_edge_len) ==
    LET length == linestring_length(linestring)
        n_samples == ((length + max_edge_len - 1) \div max_edge_len) + 1
        head == linestring[1]
        tail == linestring[Len(linestring)]
    IN IF n_samples < 3 THEN Ok(linestring)
       ELSE IF Len(linestring) < 4 THEN Raise("ValueError")
       ELSE IF n_samples # Len(linestring) /\ n_samples # 3 THEN Raise("ValueError")
       ELSE Ok([i \in DOMAIN linestring |->
                  IF i = 1 THEN head
                  ELSE IF i = Len(linestring) THEN tail
                  ELSE LET j == IF n_samples = 3 THEN 1 ELSE i - 1
                       IN <<head[1] + ((tail[1] - head[1]) * j) \div (n_samples - 1),
                            head[2], head[3]>>])

\* nx.add_path(g, nodes)
RECURSIVE add_path(_, _)
add_path(g, nodes) ==
    IF nodes = <<>> THEN g
    ELSE IF Len(nodes) = 1 THEN add_node(g, nodes[1])
    ELSE add_path(add_edge(g, nodes[1], nodes[2]), Tail(nodes))

\* the identifiers of one resampled slab: its ends, and between them the
\* negated identifiers drawn from ids, whose next start is returned too
RECURSIVE fresh_ids(_, _, _)
fresh_ids(count, start, skip) ==
    IF count <= 0 THEN [ids |-> <<>>, start |-> start]
    ELSE LET drawn == id_gen(start, skip)
             later == fresh_ids(count - 1, drawn + 1, skip)
         IN [ids |-> <<-drawn>> \o later.ids, start |-> later.start]

\* the for loop of resample_slabs.  locations is the dict line 261 rebinds
\* the parameter to: the new, empty one, in which line 264 looks the slab's
\* nodes up
RECURSIVE resample_slabs_loop(_, _, _, _, _, _)
resample_slabs_loop(slabs, g, locations, start, skip, max_edge_len) ==
    IF slabs = <<>> THEN Ok(<<g, locations>>)
    ELSE LET slab == slabs[1]
         IN IF \E i \in DOMAIN slab : slab[i] \notin DOMAIN locations
            THEN Raise("KeyError")
            ELSE LET linestring == [i \in DOMAIN slab |-> locations[slab[i]]]
                     resampled == resample_linestring(linestring, max_edge_len)
                 IN IF resampled.raised # "" THEN resampled
                    ELSE LET drawn == fresh_ids(Len(resampled.out) - 2, start, skip)
                             this_ids == <<slab[1]>> \o drawn.ids \o <<slab[Len(slab)]>>
                         IN resample_slabs_loop(Tail(slabs), add_path(g, this_ids),
                               [n \in DOMAIN locations \cup Range(this_ids) |->
                                   IF n \in Range(this_ids)
                                   THEN resampled.out[Max({i \in DOMAIN this_ids :
                                                             this_ids[i] = n})]
                                   ELSE locations[n]],
                               drawn.start, skip, max_edge_len)

\* resample_slabs: ids = id_gen(1, set(locations)) is made from the
\* parameter, then locations = dict()
resample_slabs(slabs, locations, max_edge_len) ==
    resample_slabs_loop(slabs, EmptyGraph, <<>>, 1, DOMAIN locations, max_edge_len)

\* SpacedTree.resample
SpacedTree_resample(self, edge_length) ==
    IF Tree_slabs(self).raised # "" THEN Tree_slabs(self)
    ELSE LET res == resample_slabs(Tree_slabs(self).out, self.node_loc, edge_length)
         IN IF res.raised # "" THEN res
            ELSE init(SpacedTree_new(res.out[1], res.out[2],
                                     subset_dict(self.node_radius, res.out[1].nodes)),
                      FALSE)

\* -------------------------------------------------- arbor/serialise.py
\* CoordXYZ.to_list(): the coordinates in the order x, y, z
to_list(loc) == <<loc[1], loc[2], loc[3]>>

\* CoordXYZ([x, y, z]), of the columns first..first+2 of a row
CoordXYZ(row, first) == <<row[first], row[first + 1], row[first + 2]>>

\* a TreenodeConnector sorts before another: tuples compare field by field
connector_before(a, b) ==
    \/ a.treenode < b.treenode
    \/ a.treenode = b.treenode /\ a.connector < b.connector
    \/ a.treenode = b.treenode /\ a.connector = b.connector /\ a.relation < b.relation

\* itertools.chain.from_iterable(arbor.connectors.values())
RECURSIVE chain_values(_, _)
chain_values(d, keys) ==
    IF keys = <<>> THEN <<>> ELSE d[Head(keys)] \o chain_values(d, Tail(keys))

\* sorted(...) of the connectors
RECURSIVE sorted_connectors(_)
sorted_connectors(conns) ==
    IF conns = <<>> THEN <<>>
    ELSE LET rest == sorted_connectors(Tail(conns))
             lower == SelectSeq(rest, LAMBDA c : connector_before(c, Head(conns)))
             upper == SelectSeq(rest, LAMBDA c : ~connector_before(c, Head(conns)))
         IN lower \o <<Head(conns)>> \o upper

\* the exception arbor_to_dict raises, "" when it returns: the root of an
\* empty graph, a node without a radius, an edge without a confidence
arbor_to_dict_raises(arbor) ==
    IF Tree_root_raises(arbor) THEN "ValueError"
    ELSE IF \E n \in arbor.graph.nodes : n \notin DOMAIN arbor.node_loc \/ n \notin DOMAIN arbor.node_radius
         THEN "KeyError"
    ELSE IF \E uv \in arbor.graph.edges : EdgeData_getitem_raises(arbor.edge_confidence, uv)
         THEN "KeyError"
    ELSE ""

\* arbor_to_dict: the dict with the keys "id", "graph", "connectors", "tags"
arbor_to_dict(arbor) ==
    LET node == Tree_root(arbor)
        root_row == <<node, None>> \o to_list(arbor.node_loc[node])
                        \o <<arbor.node_radius[node], None>>
        edges == topo_sort_edges(arbor.graph)
        rows == [i \in DOMAIN edges |->
                    <<edges[i][2], edges[i][1]>> \o to_list(arbor.node_loc[edges[i][2]])
                        \o <<arbor.node_radius[edges[i][2]],
                             EdgeData_getitem(arbor.edge_confidence, edges[i])>>]
        conns == sorted_connectors(chain_values(arbor.connectors, sorted(DOMAIN arbor.connectors)))
        conn_data == [i \in DOMAIN conns |->
                        <<conns[i].treenode, conns[i].connector, conns[i].relation>>
                            \o to_list(conns[i].loc)]
    IN [id |-> arbor.id,
        graph |-> [columns |-> <<"treenode", "parent", "x", "y", "z", "radius", "confidence">>,
                   data |-> <<root_row>> \o rows],
        connectors |-> [columns |-> <<"treenode", "connector", "relation", "x", "y", "z">>,
                        data |-> conn_data],
        tags |-> arbor.tags]

\* the loop over the rows below the root's: graph, node_loc, node_radius and
\* edge_confidence grow by one edge each
RECURSIVE dict_to_arbor_rows(_, _, _, _, _)
dict_to_arbor_rows(graph_rows, g, node_loc, node_radius, edge_confidence) ==
    IF graph_rows = <<>>
    THEN [graph |-> g, node_loc |-> node_loc, node_radius |-> node_radius,
          edge_confidence |-> edge_confidence]
    ELSE LET row == Head(graph_rows)
             node == row[1]
             parent == row[2]
         IN dict_to_arbor_rows(Tail(graph_rows), add_edge(g, parent, node),
                               node_loc @@ (node :> CoordXYZ(row, 3)),
                               node_radius @@ (node :> row[6]),
                               EdgeData_setitem(edge_confidence, <<parent, node>>, row[7]))

\* the loop over the connector rows: connectors[node].append(tn_conn)
RECURSIVE dict_to_arbor_connectors(_, _)
dict_to_arbor_connectors(conn_rows, connectors) ==
    IF conn_rows = <<>> THEN connectors
    ELSE LET row == Head(conn_rows)
             node == row[1]
             tn_conn == [treenode |-> node, connector |-> row[2], relation |-> row[3],
                         loc |-> CoordXYZ(row, 4)]
             sofar == IF node \in DOMAIN connectors THEN connectors[node] ELSE <<>>
         IN dict_to_arbor_connectors(Tail(conn_rows),
                [n \in DOMAIN connectors \cup {node} |->
                    IF n = node THEN Append(sofar, tn_conn) ELSE connectors[n]])

\* dict_to_arbor: the root's row gives a location and a radius but no node
\* of the graph; the identifier is read under "skid"
dict_to_arbor(d) ==
    LET graph_rows == d.graph.data
        root_row == Head(graph_rows)
        node == root_row[1]
        built == dict_to_arbor_rows(Tail(graph_rows), EmptyGraph,
                                    (node :> CoordXYZ(root_row, 3)),
                                    (node :> root_row[6]), EdgeData_new)
        connectors == dict_to_arbor_connectors(d.connectors.data, <<>>)
    IN IF "skid" \notin DOMAIN d THEN Raise("KeyError")
       ELSE init(Instance("Arbor", d["skid"], built.graph, built.node_loc,
                          built.node_radius, built.edge_confidence, connectors, d.tags),
                 TRUE)

\* dict_to_arbor(arbor_to_dict(arbor))
round_trip(arbor) ==
    IF arbor_to_dict_raises(arbor) # "" THEN Raise(arbor_to_dict_raises(arbor))
    ELSE dict_to_arbor(arbor_to_dict(arbor))

\* ------------------------------------------------------ tests/conftest.py
simple_arbor_graph ==
    [nodes |-> 1..6, edges |-> {<<1, 2>>, <<2, 3>>, <<3, 4>>, <<2, 5>>, <<3, 6>>},
     obj |-> "caller"]

\* the fixture's Arbor(100, graph, {n: 1}, {n: CoordXYZ(n, 0, 0)}, ...)
simple_arbor ==
    init(Instance("Arbor", 100, simple_arbor_graph,
                  [n \in simple_arbor_graph.nodes |-> 1],
                  [n \in simple_arbor_graph.nodes |-> <<n, 0, 0>>],
                  EdgeData_update(EdgeData_new,
                                  {<<pair, 5>> : pair \in simple_arbor_graph.edges}),
                  <<>>, <<>>), TRUE)

\* ------------------------------------------------------------------ state
VARIABLES
    phase,   \* where the caller is: "build", filling a DiGraph; "ready", an
             \* instance was constructed from it; "raised", the constructor
             \* raised; "running", it is inside a call; "called", the one
             \* call it made of the instance returned or raised
    graph,   \* the caller's nx.DiGraph, which the instance keeps as self.graph
    tree,    \* the instance the operations are called on
    ret,     \* the last call: its name, arguments, exception and return value
    lbb,     \* the frame of length_below_branches: where it is, and its locals
    edata    \* an EdgeData the caller holds: its _dict, and the last operation
             \* on it with its key, its exception and what it returned

vars == <<phase, graph, tree, ret, lbb, edata>>

\* A call as the caller sees it: the method, its arguments (a node or a
\* count, a sequence of cuts, a set of targets), the exception raised if any,
\* and the value returned: an instance (out), a list of instances (trees),
\* a dict keyed by node (value), a list of slabs (slabs) or an EdgeData
\* (edge_data: the edge_length property, or the _edge_length a topological
\* copy is given).
Call(op, node, nodes, targets, res) ==
    LET returned == res.raised = ""
    IN [op |-> op, node |-> node, nodes |-> nodes, targets |-> targets,
        raised |-> res.raised,
        out |-> IF returned /\ op \in {"__init__", "reroot", "copy", "copy_below", "prune_at",
                                       "topological_copy", "get_significant_branches",
                                       "resample", "dict_to_arbor",
                                       "prune_branches_containing"}
                THEN res.out ELSE NoTree,
        trees |-> IF returned /\ op = "cut" THEN res.out ELSE <<>>,
        value |-> IF returned /\ op \in {"strahler", "length_below_branches",
                                        "distance_from_root"}
                  THEN res.out ELSE <<>>,
        slabs |-> IF returned /\ op = "slabs" THEN res.out ELSE <<>>,
        edge_data |-> IF returned /\ op = "edge_length" THEN res.out ELSE <<>>,
        edges |-> IF returned /\ op = "dfs_edges" THEN res.out ELSE <<>>]

\* the DiGraph objects of the instances a call returned
ResultGraphs(r) == {r.out.graph} \cup {r.trees[i].graph : i \in DOMAIN r.trees}

\* A DiGraph as its holder sees it after the call r: Python hands objects
\* round by reference, so when a returned instance holds the same object,
\* the holder sees what the call left in it.
Aliased(g, r) ==
    IF \E h \in ResultGraphs(r) : h.obj = g.obj
    THEN CHOOSE h \in ResultGraphs(r) : h.obj = g.obj
    ELSE g

\* the caller holding no EdgeData
NoEdgeData == [dict |-> EdgeData_new, op |-> "", k |-> <<0, 0>>, raised |-> "", out |-> 0]

\* the identifiers a caller passes: those it built the graph from, and the
\* instance's own
ArgIds == NodeIds \cup tree.graph.nodes

Init ==
    /\ phase = "build"
    /\ graph = CallerGraph
    /\ tree = NoTree
    /\ ret = Call("", None, <<>>, {}, Ok(<<>>))
    /\ lbb = NoFrame
    /\ edata = NoEdgeData

\* graph.add_node(n)
AddNode(n) ==
    /\ phase = "build"
    /\ n \notin graph.nodes
    /\ graph' = add_node(graph, n)
    /\ UNCHANGED <<phase, tree, ret, lbb, edata>>

\* graph.add_edge(u, v)
AddEdge(u, v) ==
    /\ phase = "build"
    /\ <<u, v>> \notin graph.edges
    /\ Cardinality(graph.edges) < MaxNodes - 1
    /\ graph' = add_edge(graph, u, v)
    /\ UNCHANGED <<phase, tree, ret, lbb, edata>>

\* Tree(graph)
NewTree ==
    /\ phase = "build"
    /\ LET res == init(Tree_new(graph), TRUE)
       IN /\ ret' = Call("__init__", None, <<>>, {}, res)
          /\ phase' = IF res.raised = "" THEN "ready" ELSE "raised"
          /\ tree' = IF res.raised = "" THEN res.out ELSE NoTree
    /\ UNCHANGED <<graph, lbb, edata>>

\* the simple_arbor fixture
SimpleArbor ==
    /\ phase = "build"
    /\ graph = CallerGraph
    /\ graph' = simple_arbor_graph
    /\ ret' = Call("__init__", None, <<>>, {}, simple_arbor)
    /\ phase' = IF simple_arbor.raised = "" THEN "ready" ELSE "raised"
    /\ tree' = IF simple_arbor.raised = "" THEN simple_arbor.out ELSE NoTree
    /\ UNCHANGED <<lbb, edata>>

\* tree.strahler
Strahler ==
    /\ phase = "ready"
    /\ ret' = Call("strahler", None, <<>>, {}, Tree_calculate_strahler(tree))
    /\ phase' = "called"
    /\ UNCHANGED <<graph, tree, lbb, edata>>

\* tree.reroot(node)
Reroot(node) ==
    /\ phase = "ready"
    /\ ret' = Call("reroot", node, <<>>, {}, Tree_reroot(tree, node))
    /\ phase' = "called"
    /\ tree' = [tree EXCEPT !.graph = Aliased(tree.graph, ret')]
    /\ graph' = Aliased(graph, ret')
    /\ UNCHANGED <<lbb, edata>>

\* tree.copy_below(node)
Copy ==
    /\ phase = "ready"
    /\ ret' = Call("copy", None, <<>>, {}, Tree_copy(tree))
    /\ phase' = "called"
    /\ tree' = [tree EXCEPT !.graph = Aliased(tree.graph, ret')]
    /\ graph' = Aliased(graph, ret')
    /\ UNCHANGED <<lbb, edata>>

CopyBelow(node) ==
    /\ phase = "ready"
    /\ ret' = Call("copy_below", node, <<>>, {}, Tree_copy_below(tree, node))
    /\ phase' = "called"
    /\ tree' = [tree EXCEPT !.graph = Aliased(tree.graph, ret')]
    /\ graph' = Aliased(graph, ret')
    /\ UNCHANGED <<lbb, edata>>

\* list(tree.cut(*cuts))
Cut(cuts) ==
    /\ phase = "ready"
    /\ ret' = Call("cut", None, cuts, {}, Tree_cut(tree, cuts))
    /\ phase' = "called"
    /\ tree' = [tree EXCEPT !.graph = Aliased(tree.graph, ret')]
    /\ graph' = Aliased(graph, ret')
    /\ UNCHANGED <<lbb, edata>>

\* list(tree.slabs())
Slabs ==
    /\ phase = "ready"
    /\ ret' = Call("slabs", None, <<>>, {}, Tree_slabs(tree))
    /\ phase' = "called"
    /\ UNCHANGED <<graph, tree, lbb, edata>>

\* tree.prune_at(*nodes)
PruneAt(nodes) ==
    /\ phase = "ready"
    /\ ret' = Call("prune_at", None, <<>>, nodes, Tree_prune_at(tree, nodes))
    /\ phase' = "called"
    /\ tree' = [tree EXCEPT !.graph = Aliased(tree.graph, ret')]
    /\ graph' = Aliased(graph, ret')
    /\ UNCHANGED <<lbb, edata>>

\* tree.topological_copy() of a plain Tree
TopologicalCopy ==
    /\ phase = "ready"
    /\ tree.cls = "Tree"
    /\ ret' = Call("topological_copy", None, <<>>, {}, Tree_topological_copy(tree))
    /\ phase' = "called"
    /\ tree' = [tree EXCEPT !.graph = Aliased(tree.graph, ret')]
    /\ graph' = Aliased(graph, ret')
    /\ UNCHANGED <<lbb, edata>>

\* argument lists of distinct identifiers
CutArgs ==
    {cuts \in UNION {[1..k -> ArgIds] : k \in 0..MaxCuts} :
        \A i, j \in DOMAIN cuts : i # j => cuts[i] # cuts[j]}

PruneArgs == {S \in SUBSET ArgIds : Cardinality(S) <= MaxTargets}

PruneBranchesContaining(nodes) ==
    /\ phase = "ready"
    /\ ret' = Call("prune_branches_containing", None, <<>>, nodes,
                   Tree_prune_branches_containing(tree, nodes))
    /\ phase' = "called"
    /\ tree' = [tree EXCEPT !.graph = Aliased(tree.graph, ret')]
    /\ graph' = Aliased(graph, ret')
    /\ UNCHANGED <<lbb, edata>>

\* list(dfs_edges(self.graph, root, stop_at)): g.successors raises for a
\* start that is no node of the graph
dfs_edges_call(g, root, stop_at) ==
    IF root \notin g.nodes THEN Raise("NetworkXError")
    ELSE IF dfs_edges_raises(g, root, stop_at) THEN Raise("ValueError")
    ELSE Ok(dfs_edges(g, root, stop_at))

DfsEdges(root, stop_at) ==
    /\ phase = "ready"
    /\ ret' = Call("dfs_edges", root, <<>>, stop_at, dfs_edges_call(tree.graph, root, stop_at))
    /\ phase' = "called"
    /\ UNCHANGED <<graph, tree, lbb, edata>>

Next ==
    \/ \E n \in NodeIds : AddNode(n)
    \/ \E u, v \in NodeIds : AddEdge(u, v)
    \/ NewTree
    \/ SimpleArbor
    \/ Strahler
    \/ \E node \in ArgIds : Reroot(node)
    \/ Copy
    \/ \E node \in ArgIds : CopyBelow(node)
    \/ \E cuts \in CutArgs : Cut(cuts)
    \/ Slabs
    \/ \E nodes \in PruneArgs : PruneAt(nodes)
    \/ TopologicalCopy
    \/ \E root \in tree.graph.nodes, stop_at \in PruneArgs : DfsEdges(root, stop_at)
    \/ \E nodes \in PruneArgs : PruneBranchesContaining(nodes)

Spec == Init /\ [][Next]_vars

\* --------------------------------------------- spaced trees and arbors
MaxArborNodes == 3   \* node ids of the spaced trees and arbors drawn
MaxBranches == 2     \* largest n handed to get_significant_branches(n)
MaxEdgeLen == 2      \* largest edge length handed to resample(...)

ArborIds == 1..MaxArborNodes

\* node locations drawn: points of the x axis
Locs == {<<0, 0, 0>>, <<1, 0, 0>>}

\* edge confidences drawn
Confidences == {1, 5}

\* the graphs in which every node names at most one parent
ParentGraphs ==
    UNION {{[nodes |-> S,
             edges |-> {<<parent[n], n>> : n \in {m \in S : parent[m] # None}},
             obj |-> "caller"] :
                parent \in [S -> S \cup {None}]} : S \in SUBSET ArborIds \ {{}}}

\* the arguments a caller hands SpacedTree(graph, node_loc, node_radius):
\* a location for every node, a radius for every node or for none
SpacedTreeInputs(g) ==
    {SpacedTree_new(g, node_loc, [n \in K |-> 1]) :
        node_loc \in [g.nodes -> Locs], K \in {g.nodes, {}}}

\* and Arbor(skid, graph, node_loc, node_radius, edge_confidence, connectors,
\* tags): one confidence for all edges, a connector on every node or on
\* none, the leaves tagged "ends" and the root "soma"
ArborInputs(g) ==
    {Instance("Arbor", 100, g, st.node_loc, st.node_radius,
              EdgeData_update(EdgeData_new, {<<pair, c>> : pair \in g.edges}),
              [n \in K |-> <<[treenode |-> n, connector |-> 1, relation |-> 0,
                              loc |-> <<0, 0, 0>>]>>],
              [k \in {"ends", "soma"} |->
                  IF k = "ends" THEN sorted(find_branches_leaves(g)[2])
                  ELSE sorted({n \in g.nodes : in_degree(g, n) = 0})]) :
        st \in SpacedTreeInputs(g), c \in Confidences, K \in {g.nodes, {}}}

\* a SpacedTree or an Arbor whose constructor, validating, returned
InitArbor ==
    /\ \E g \in ParentGraphs : \E self \in SpacedTreeInputs(g) \cup ArborInputs(g) :
          /\ init(self, TRUE).raised = ""
          /\ tree = self
          /\ graph = g
          /\ ret = Call("__init__", None, <<>>, {}, init(self, TRUE))
    /\ phase = "ready"
    /\ lbb = NoFrame
    /\ edata = NoEdgeData

\* lines 100-104 of length_below_branches, for the caller itself or for
\* get_significant_branches(n_branches)
EnterLengthBelowBranches(caller, n_branches) ==
    IF SpacedTree_edge_length_raises(tree)
    THEN /\ phase' = "called"
         /\ ret' = Call(caller, n_branches, <<>>, {}, Raise("AttributeError"))
         /\ UNCHANGED lbb
    ELSE /\ phase' = "running"
         /\ lbb' = [NoFrame EXCEPT !.pc = "while_leaves", !.caller = caller,
                                   !.n_branches = n_branches,
                                   !.leaves = Tree_leaves(tree),
                                   !.branches = Tree_branches(tree)]
         /\ UNCHANGED ret

\* tree.length_below_branches()
LengthBelowBranches ==
    /\ phase = "ready"
    /\ tree.cls \in {"SpacedTree", "Arbor"}
    /\ EnterLengthBelowBranches("length_below_branches", 0)
    /\ UNCHANGED <<graph, tree, edata>>

\* tree.get_significant_branches(n_branches), up to its call of
\* length_below_branches
GetSignificantBranches(n_branches) ==
    /\ phase = "ready"
    /\ tree.cls \in {"SpacedTree", "Arbor"}
    /\ IF Tree_root_raises(tree)
       THEN /\ phase' = "called"
            /\ ret' = Call("get_significant_branches", n_branches, <<>>, {}, Raise("ValueError"))
            /\ UNCHANGED lbb
       ELSE EnterLengthBelowBranches("get_significant_branches", n_branches)
    /\ UNCHANGED <<graph, tree, edata>>

\* line 105-107: while leaves: prev_node = leaves.pop(); prev_length = 0.
\* The list comes from a set, so any leaf may be the last of it
PopLeaf ==
    /\ phase = "running"
    /\ lbb.pc = "while_leaves"
    /\ \E leaf \in lbb.leaves :
          lbb' = [lbb EXCEPT !.leaves = @ \ {leaf}, !.prev_node = leaf,
                             !.prev_length = 0, !.pc = "parent"]
    /\ UNCHANGED <<phase, graph, tree, ret, edata>>

\* line 109-111: current_node = unique_parent(graph, prev_node); break at the
\* root
FindParent ==
    /\ phase = "running"
    /\ lbb.pc = "parent"
    /\ LET current_node == unique_parent(tree.graph, lbb.prev_node)
       IN lbb' = [lbb EXCEPT !.current_node = current_node,
                             !.pc = IF current_node = None THEN "while_leaves"
                                    ELSE "branch"]
    /\ UNCHANGED <<phase, graph, tree, ret, edata>>

\* line 112-117: a branch is credited, and the walk of this leaf ends at a
\* branch still awaiting credits; otherwise the loop goes round again, with
\* prev_node and prev_length what they were
CreditBranch ==
    /\ phase = "running"
    /\ lbb.pc = "branch"
    /\ LET current_node == lbb.current_node
           edge_len == SpacedTree_edge_length(tree)
       IN IF current_node \in DOMAIN lbb.branches
          THEN lbb' = [lbb EXCEPT
                  !.out = defaultdict_add(@, current_node,
                              lbb.prev_length
                              + EdgeData_getitem(edge_len, <<lbb.prev_node, current_node>>)),
                  !.order = IF current_node \in DOMAIN lbb.out THEN @
                            ELSE Append(@, current_node),
                  !.branches = IF @[current_node] > 0
                               THEN [@ EXCEPT ![current_node] = @ - 1] ELSE @,
                  !.pc = IF lbb.branches[current_node] > 0 THEN "while_leaves"
                         ELSE "parent"]
          ELSE lbb' = [lbb EXCEPT !.pc = "parent"]
    /\ UNCHANGED <<phase, graph, tree, ret, edata>>

\* line 119: return dict(out), to the caller
ReturnLengths ==
    /\ phase = "running"
    /\ lbb.pc = "while_leaves"
    /\ lbb.leaves = {}
    /\ lbb.caller = "length_below_branches"
    /\ phase' = "called"
    /\ ret' = Call("length_below_branches", None, <<>>, {}, Ok(lbb.out))
    /\ lbb' = [lbb EXCEPT !.pc = "idle"]
    /\ UNCHANGED <<graph, tree, edata>>

\* line 119, then lines 124-133 of get_significant_branches
ReturnSignificantBranches ==
    /\ phase = "running"
    /\ lbb.pc = "while_leaves"
    /\ lbb.leaves = {}
    /\ lbb.caller = "get_significant_branches"
    /\ phase' = "called"
    /\ ret' = Call("get_significant_branches", lbb.n_branches, <<>>, {},
                   SpacedTree_get_significant_branches(tree, lbb.out, lbb.order,
                                                       lbb.n_branches))
    /\ lbb' = [lbb EXCEPT !.pc = "idle"]
    /\ UNCHANGED <<graph, tree, edata>>

\* tree.topological_copy() on a SpacedTree or an Arbor: the instance
\* returned, and its _edge_length
SpacedTopologicalCopy ==
    /\ phase = "ready"
    /\ tree.cls \in {"SpacedTree", "Arbor"}
    /\ LET res == topological_copy(tree)
       IN ret' = IF res.raised # ""
                 THEN Call("topological_copy", None, <<>>, {}, res)
                 ELSE [Call("topological_copy", None, <<>>, {}, Ok(res.out.new))
                          EXCEPT !.edge_data = res.out.edge_length]
    /\ phase' = "called"
    /\ tree' = [tree EXCEPT !.graph = Aliased(tree.graph, ret')]
    /\ graph' = Aliased(graph, ret')
    /\ UNCHANGED <<lbb, edata>>

\* tree.resample(edge_length)
Resample(edge_length) ==
    /\ phase = "ready"
    /\ tree.cls \in {"SpacedTree", "Arbor"}
    /\ ret' = Call("resample", edge_length, <<>>, {}, SpacedTree_resample(tree, edge_length))
    /\ phase' = "called"
    /\ UNCHANGED <<graph, tree, lbb, edata>>

\* tree.edge_length
EdgeLength ==
    /\ phase = "ready"
    /\ tree.cls \in {"SpacedTree", "Arbor"}
    /\ ret' = Call("edge_length", None, <<>>, {}, SpacedTree_edge_length_call(tree))
    /\ phase' = "called"
    /\ UNCHANGED <<graph, tree, lbb, edata>>

\* tree.distance_from_root
DistanceFromRoot ==
    /\ phase = "ready"
    /\ tree.cls \in {"SpacedTree", "Arbor"}
    /\ ret' = Call("distance_from_root", None, <<>>, {},
                   SpacedTree_distance_from_root(tree))
    /\ phase' = "called"
    /\ UNCHANGED <<graph, tree, lbb, edata>>

\* the interpreter going on with length_below_branches, up to its return
Loop ==
    \/ PopLeaf
    \/ FindParent
    \/ CreditBranch
    \/ ReturnLengths

\* the interpreter going on with the call it is in
Run ==
    \/ Loop
    \/ ReturnSignificantBranches

\* dict_to_arbor(arbor_to_dict(arbor))
RoundTrip ==
    /\ phase = "ready"
    /\ tree.cls = "Arbor"
    /\ ret' = Call("dict_to_arbor", None, <<>>, {}, round_trip(tree))
    /\ phase' = "called"
    /\ UNCHANGED <<graph, tree, lbb, edata>>

NextArbor ==
    \/ \E node \in ArgIds : CopyBelow(node)
    \/ \E cuts \in CutArgs : Cut(cuts)
    \/ \E nodes \in PruneArgs : PruneAt(nodes)
    \/ LengthBelowBranches
    \/ \E n_branches \in 0..MaxBranches : GetSignificantBranches(n_branches)
    \/ Run
    \/ EdgeLength
    \/ DistanceFromRoot
    \/ SpacedTopologicalCopy
    \/ \E edge_length \in 1..MaxEdgeLen : Resample(edge_length)
    \/ RoundTrip

SpecArbor == InitArbor /\ [][NextArbor]_vars

\* a call that can take a step takes it: the interpreter does not stop
\* inside length_below_branches, whose frame every step rewrites
FairSpecArbor == SpecArbor /\ WF_<<phase, lbb>>(Loop)

\* ------------------------------------------------- an EdgeData in use
MaxEdgeId == 2       \* identifiers in the keys handed to the EdgeData
Values == {1, 2}     \* the values stored: two that can be told apart

\* the keys a caller uses: pairs of identifiers in either order
EdgeKeys == (1..MaxEdgeId) \X (1..MaxEdgeId)

\* the dicts a caller hands to EdgeData(...) and update(...), as the lists
\* of their (key, value) pairs: at most one pair per value, no key twice,
\* and a different value under each key, so that which write came last shows
ItemLists ==
    {[i \in DOMAIN keys |-> <<keys[i], i>>] :
        keys \in {ks \in UNION {[1..n -> EdgeKeys] : n \in {0} \cup Values} :
                     \A i, j \in DOMAIN ks : i # j => ks[i] # ks[j]}}

\* data = EdgeData(items)
InitEdgeData ==
    /\ phase = "edge_data"
    /\ graph = CallerGraph
    /\ tree = NoTree
    /\ ret = Call("", None, <<>>, {}, Ok(<<>>))
    /\ lbb = NoFrame
    /\ \E items \in ItemLists :
          edata = [dict |-> EdgeData_init(items), op |-> "__init__", k |-> <<0, 0>>,
                   raised |-> "", out |-> 0]

\* data[k] = v
SetItem(k, v) ==
    /\ phase = "edge_data"
    /\ edata' = [dict |-> EdgeData_setitem(edata.dict, k, v), op |-> "__setitem__",
                 k |-> k, raised |-> "", out |-> v]
    /\ UNCHANGED <<phase, graph, tree, ret, lbb>>

\* del data[k]
DelItem(k) ==
    /\ phase = "edge_data"
    /\ edata' = IF EdgeData_delitem_raises(edata.dict, k)
                THEN [edata EXCEPT !.op = "__delitem__", !.k = k,
                                   !.raised = "KeyError", !.out = 0]
                ELSE [dict |-> EdgeData_delitem(edata.dict, k), op |-> "__delitem__",
                      k |-> k, raised |-> "", out |-> 0]
    /\ UNCHANGED <<phase, graph, tree, ret, lbb>>

\* data[k]
GetItem(k) ==
    /\ phase = "edge_data"
    /\ edata' = IF EdgeData_getitem_raises(edata.dict, k)
                THEN [edata EXCEPT !.op = "__getitem__", !.k = k,
                                   !.raised = "KeyError", !.out = 0]
                ELSE [edata EXCEPT !.op = "__getitem__", !.k = k, !.raised = "",
                                   !.out = EdgeData_getitem(edata.dict, k)]
    /\ UNCHANGED <<phase, graph, tree, ret, lbb>>

\* k in data: out is 1 for True, 0 for False
Contains(k) ==
    /\ phase = "edge_data"
    /\ edata' = [edata EXCEPT !.op = "__contains__", !.k = k, !.raised = "",
                              !.out = IF EdgeData_contains(edata.dict, k) THEN 1 ELSE 0]
    /\ UNCHANGED <<phase, graph, tree, ret, lbb>>

\* data.update(items)
Update(items) ==
    /\ phase = "edge_data"
    /\ edata' = [dict |-> EdgeData_update_items(edata.dict, items), op |-> "update",
                 k |-> IF items = <<>> THEN <<0, 0>> ELSE items[Len(items)][1],
                 raised |-> "",
                 out |-> IF items = <<>> THEN 0 ELSE items[Len(items)][2]]
    /\ UNCHANGED <<phase, graph, tree, ret, lbb>>

NextEdgeData ==
    \/ \E k \in EdgeKeys, v \in Values : SetItem(k, v)
    \/ \E k \in EdgeKeys : DelItem(k)
    \/ \E k \in EdgeKeys : GetItem(k)
    \/ \E k \in EdgeKeys : Contains(k)
    \/ \E items \in ItemLists : Update(items)

SpecEdgeData == InitEdgeData /\ [][NextEdgeData]_vars

\* ------------------------------------------------------------- properties
\* What the properties say of graphs, stated on the edge relation alone.
RECURSIVE Closure(_, _)
Closure(g, S) ==
    LET T == S \cup {e[2] : e \in {x \in g.edges : x[1] \in S}}
    IN IF T = S THEN S ELSE Closure(g, T)

Children(g, n) == {e[2] : e \in {x \in g.edges : x[1] = n}}

Parents(g, n) == {e[1] : e \in {x \in g.edges : x[2] = n}}

\* the strict descendants of n
Descendants(g, n) == Closure(g, Children(g, n))

Acyclic(g) == \A n \in g.nodes : n \notin Descendants(g, n)

Roots(g) == {n \in g.nodes : Parents(g, n) = {}}

Leaves(g) == {n \in g.nodes : Children(g, n) = {}}

Branches(g) == {n \in g.nodes : Cardinality(Children(g, n)) > 1}

\* a valid tree: one root, one parent for every other node, no cycle
IsArborescence(g) ==
    /\ Cardinality(Roots(g)) = 1
    /\ \A n \in g.nodes \ Roots(g) : Cardinality(Parents(g, n)) = 1
    /\ \A e \in g.edges : e[1] \in g.nodes /\ e[2] \in g.nodes
    /\ Acyclic(g)

RootOf(g) == CHOOSE n \in Roots(g) : TRUE

\* the operation `op` was called on a valid tree
CalledOnTree(op) == phase = "called" /\ ret.op = op /\ IsArborescence(tree.graph)

\* C1: the Tree constructor, validating, succeeds if and only if the graph
\* has exactly one node of in-degree 0, every other node has in-degree 1 and
\* the edge relation is acyclic; every other graph is rejected with an error.
C1_ValidateIffArborescence ==
    (phase \in {"ready", "raised"} /\ ret.op = "__init__")
        => ((phase = "ready") <=> IsArborescence(graph))

\* the edges of g on the path from its root to r
PathEdges(g, r) == {e \in g.edges : e[2] = r \/ r \in Descendants(g, e[2])}

Reversed(E) == {<<e[2], e[1]>> : e \in E}

\* what C2 says of reroot(r) whatever r is, its sentence on the leaves aside
C2_RerootCommon ==
    LET g == tree.graph
        r == ret.node
        h == ret.out.graph
    IN /\ ret.raised = ""
       /\ h.nodes = g.nodes
       /\ IsArborescence(h)
       /\ RootOf(h) = r
       /\ h.edges = (g.edges \ PathEdges(g, r)) \cup Reversed(PathEdges(g, r))
       /\ Tree_reroot(ret.out, RootOf(g)).raised = ""
       /\ Tree_reroot(ret.out, RootOf(g)).out.graph.edges = g.edges

\* the leaves C2 names: the old leaves minus r, plus the old root when it
\* had exactly one child
C2_NamedLeaves ==
    LET g == tree.graph
    IN (Leaves(g) \ {ret.node})
       \cup (IF Cardinality(Children(g, RootOf(g))) = 1 THEN {RootOf(g)} ELSE {})

\* C2 as stated: for every valid tree and every node r of it, reroot(r)
\* returns a tree on the same nodes rooted at r, with exactly the edges of
\* the former root-to-r path reversed, whose leaves are the old leaves minus
\* r plus the old root when it had one child; rerooting it at the old root
\* restores the edge set.
C2_RerootAsStated ==
    (CalledOnTree("reroot") /\ ret.node \in tree.graph.nodes)
        => (C2_RerootCommon /\ Leaves(ret.out.graph) = C2_NamedLeaves)

\* C2 amended: as stated, the sentence on the leaves holding when r is not
\* the old root; rerooting at the old root leaves the leaves as they were.
C2_RerootAmended ==
    (CalledOnTree("reroot") /\ ret.node \in tree.graph.nodes)
        => /\ C2_RerootCommon
           /\ Leaves(ret.out.graph) =
                IF ret.node = RootOf(tree.graph) THEN Leaves(tree.graph)
                ELSE C2_NamedLeaves

\* reroot at a node two or more edges below the root of a branching tree
C2_Witness ==
    /\ CalledOnTree("reroot")
    /\ ret.raised = ""
    /\ ret.node \in tree.graph.nodes
    /\ Cardinality(PathEdges(tree.graph, ret.node)) >= 2
    /\ Branches(tree.graph) # {}

\* the consecutive pairs of a slab
SlabPairs(slab) == {<<slab[i], slab[i + 1]>> : i \in 1..(Len(slab) - 1)}

RECURSIVE SumLen(_)
SumLen(slabs) ==
    IF slabs = <<>> THEN 0 ELSE (Len(slabs[1]) - 1) + SumLen(Tail(slabs))

\* C3: the slabs of a valid tree partition its edge set: their consecutive
\* pairs are the parent->child edges, each exactly once and nothing else;
\* every slab starts at the root or a branch and ends at a branch or leaf,
\* and no interior node of a slab is a branch or a leaf.
C3_SlabsPartitionEdges ==
    CalledOnTree("slabs")
        => LET g == tree.graph
               slabs == ret.slabs
               ends == Branches(g) \cup Leaves(g)
           IN /\ ret.raised = ""
              /\ UNION {SlabPairs(slabs[i]) : i \in DOMAIN slabs} = g.edges
              /\ SumLen(slabs) = Cardinality(g.edges)
              /\ \A i \in DOMAIN slabs :
                    /\ Len(slabs[i]) >= 2
                    /\ Cardinality(SlabPairs(slabs[i])) = Len(slabs[i]) - 1
                    /\ slabs[i][1] \in {RootOf(g)} \cup Branches(g)
                    /\ slabs[i][Len(slabs[i])] \in ends
                    /\ \A j \in 2..(Len(slabs[i]) - 1) : slabs[i][j] \notin ends

\* slabs of a tree with a branch and a slab that has an interior node
C3_Witness ==
    /\ CalledOnTree("slabs")
    /\ ret.raised = ""
    /\ Branches(tree.graph) # {}
    /\ \E i \in DOMAIN ret.slabs : Len(ret.slabs[i]) >= 3

\* C4: topological_copy() of a valid tree, the single isolated node
\* included, returns a valid tree with the root, the leaves and the branches
\* (and their degrees) of the original, no other node, and exactly one edge
\* per slab, from the slab's first node to its last.
C4_TopologicalCopy ==
    CalledOnTree("topological_copy")
        => LET g == tree.graph
               h == ret.out.graph
               slabs == Tree_slabs(tree).out
           IN /\ ret.raised = ""
              /\ IsArborescence(h)
              /\ RootOf(h) = RootOf(g)
              /\ Leaves(h) = Leaves(g)
              /\ Branches(h) = Branches(g)
              /\ \A b \in Branches(g) : Children(h, b) # {} /\
                    Cardinality(Children(h, b)) = Cardinality(Children(g, b))
              /\ h.nodes = {RootOf(g)} \cup Leaves(g) \cup Branches(g)
              /\ h.edges = {<<slabs[i][1], slabs[i][Len(slabs[i])]>> : i \in DOMAIN slabs}
              /\ Cardinality(h.edges) = Len(slabs)

\* C4 on the trees that have an edge
C4_TopologicalCopyOfEdges ==
    tree.graph.edges # {} => C4_TopologicalCopy

IsDistinct(s) == \A i, j \in DOMAIN s : i # j => s[i] # s[j]

\* the nodes reached from c without passing through a node of S other than c
Piece(g, c, S) ==
    {c} \cup {d \in Descendants(g, c) :
                \A x \in S \ {c} : ~(x \in Descendants(g, c)
                                      /\ (d = x \/ d \in Descendants(g, x)))}

\* C5: cut(...) with distinct nodes of a valid tree yields one tree per cut
\* node in argument order, then one for the root when the root was not given;
\* each is rooted at its cut point and holds that point and the descendants
\* reached from it without passing through another cut point; the node sets
\* are pairwise disjoint and their union is the original node set.
C5_CutPartitions ==
    (CalledOnTree("cut") /\ IsDistinct(ret.nodes) /\ Range(ret.nodes) \subseteq tree.graph.nodes)
        => LET g == tree.graph
               cuts == ret.nodes
               points == IF RootOf(g) \in Range(cuts) THEN cuts ELSE Append(cuts, RootOf(g))
               out == ret.trees
           IN /\ ret.raised = ""
              /\ Len(out) = Len(points)
              /\ \A i \in DOMAIN points :
                    /\ out[i].graph.nodes = Piece(g, points[i], Range(cuts))
                    /\ out[i].graph.edges =
                          {e \in g.edges : e[1] \in out[i].graph.nodes
                                           /\ e[2] \in out[i].graph.nodes}
                    /\ IsArborescence(out[i].graph)
                    /\ RootOf(out[i].graph) = points[i]
                    /\ out[i].cls = tree.cls
              /\ \A i, j \in DOMAIN out :
                    i # j => out[i].graph.nodes \cap out[j].graph.nodes = {}
              /\ UNION {out[i].graph.nodes : i \in DOMAIN out} = g.nodes

\* a cut at two nodes, one below the other, neither the root
C5_Witness ==
    /\ CalledOnTree("cut")
    /\ ret.raised = ""
    /\ Len(ret.nodes) = 2
    /\ IsDistinct(ret.nodes)
    /\ Range(ret.nodes) \subseteq tree.graph.nodes
    /\ RootOf(tree.graph) \notin Range(ret.nodes)
    /\ ret.nodes[1] \in Descendants(tree.graph, ret.nodes[2])
    /\ Len(ret.trees) = 3

\* what Arbor._validate asks of an instance, on its attributes alone
FullyValid(a) ==
    /\ IsArborescence(a.graph)
    /\ DOMAIN a.node_loc = a.graph.nodes
    /\ DOMAIN a.node_radius \subseteq a.graph.nodes
    /\ DOMAIN a.edge_confidence =
          {IF e[1] <= e[2] THEN e ELSE <<e[2], e[1]>> : e \in a.graph.edges}
    /\ DOMAIN a.connectors \subseteq a.graph.nodes
    /\ \A k \in DOMAIN a.tags : Range(a.tags[k]) \subseteq a.graph.nodes

\* C6: copy_below(n) on a valid Arbor returns a tree over n and its
\* descendants which, like every tree cut(...) yields, passes full
\* validation, whichever way the nodes are numbered.
C6_SubArborsValidate ==
    (phase = "called" /\ tree.cls = "Arbor" /\ IsArborescence(tree.graph))
        => /\ (ret.op = "copy_below" /\ ret.node \in tree.graph.nodes)
                => /\ ret.raised = ""
                   /\ ret.out.graph.nodes =
                         {ret.node} \cup Descendants(tree.graph, ret.node)
                   /\ FullyValid(ret.out)
                   /\ Arbor_validate(ret.out) = ""
           /\ (ret.op = "cut" /\ Range(ret.nodes) \subseteq tree.graph.nodes)
                => /\ ret.raised = ""
                   /\ \A i \in DOMAIN ret.trees :
                         FullyValid(ret.trees[i]) /\ Arbor_validate(ret.trees[i]) = ""

\* C6 on the trees in which every parent has a smaller identifier than its
\* children
C6_SubArborsValidateAscending ==
    (\A e \in tree.graph.edges : e[1] < e[2]) => C6_SubArborsValidate

\* C7: prune_at(targets) on a valid tree returns, without raising, a tree on
\* the original nodes minus the targets and their descendants: the empty
\* tree when the root is a target.
C7_PruneAt ==
    CalledOnTree("prune_at")
        => LET g == tree.graph
               gone == UNION {{t} \cup Descendants(g, t) : t \in ret.targets}
           IN /\ ret.raised = ""
              /\ ret.out.graph.nodes = g.nodes \ gone
              /\ ret.out.graph.edges =
                    {e \in g.edges : e[1] \notin gone /\ e[2] \notin gone}

\* C7 where the root is not a target
C7_PruneAtBelowRoot ==
    (CalledOnTree("prune_at") /\ RootOf(tree.graph) \notin ret.targets) => C7_PruneAt

\* C8: the strahler map of a valid tree gives 1 to every leaf and to every
\* other node the largest number m among its children, plus one exactly when
\* two or more children have m; every node of a path graph gets 1, and in the
\* fixture's tree the root gets 2 and the largest-numbered node 1.
C8_Strahler ==
    CalledOnTree("strahler")
        => LET g == tree.graph
               s == ret.value
           IN /\ ret.raised = ""
              /\ DOMAIN s = g.nodes
              /\ \A n \in Leaves(g) : s[n] = 1
              /\ \A n \in g.nodes \ Leaves(g) :
                    LET m == Max({s[c] : c \in Children(g, n)})
                    IN s[n] = IF Cardinality({c \in Children(g, n) : s[c] = m}) >= 2
                              THEN m + 1 ELSE m
              /\ Branches(g) = {} => \A n \in g.nodes : s[n] = 1
              /\ g = simple_arbor_graph => s[1] = 2 /\ s[Max(DOMAIN s)] = 1

\* the strahler map of the fixture, where node 2 has children numbered 2 and 1
C8_Witness ==
    /\ CalledOnTree("strahler")
    /\ ret.raised = ""
    /\ tree.graph = simple_arbor_graph
    /\ \E n \in tree.graph.nodes :
          Cardinality({ret.value[c] : c \in Children(tree.graph, n)}) = 2

\* C9: length_below_branches() terminates on every valid tree: the walk
\* from each leaf moves to the parent at every step and ends at a branch
\* awaiting credits or at the root, so the call returns whatever the shape
\* of the tree, the two-node tree 1->2 and the path graphs included.
C9_LengthBelowBranchesReturns ==
    (/\ phase = "running"
     /\ lbb.caller = "length_below_branches"
     /\ IsArborescence(tree.graph))
        ~> (phase = "called" /\ ret.op = "length_below_branches" /\ ret.raised = "")

\* C9 on the trees in which every leaf is the root or the child of a branch
C9_ReturnsBelowBranches ==
    (/\ phase = "running"
     /\ lbb.caller = "length_below_branches"
     /\ \A leaf \in Leaves(tree.graph) :
           Parents(tree.graph, leaf) \subseteq Branches(tree.graph))
        ~> (phase = "called")

\* the strict ancestors of n
Ancestors(g, n) == {a \in g.nodes : n \in Descendants(g, a)}

\* C10: when length_below_branches() returns, get_significant_branches(n)
\* returns the induced subtree over the root and the nodes of the slabs
\* walked leafward from it, the walk going below a slab's last node only
\* when that node is one of the n branches with the largest length below:
\* the nodes all of whose branching strict ancestors are among those n.
C10_SignificantBranches ==
    (phase = "called" /\ ret.op = "get_significant_branches" /\ ret.raised = ""
     /\ IsArborescence(tree.graph))
        => LET g == tree.graph
               lens == lbb.out
               n == IF ret.node < Cardinality(DOMAIN lens) THEN ret.node
                    ELSE Cardinality(DOMAIN lens)
           IN \E K \in SUBSET DOMAIN lens :
                 /\ Cardinality(K) = n
                 /\ \A a \in K : \A b \in DOMAIN lens \ K : lens[a] >= lens[b]
                 /\ ret.out.graph.nodes =
                       {m \in g.nodes : Ancestors(g, m) \cap Branches(g) \subseteq K}
                 /\ ret.out.graph.edges =
                       {e \in g.edges : e[1] \in ret.out.graph.nodes
                                        /\ e[2] \in ret.out.graph.nodes}

\* C10 when no branch is to be kept
C10_NoSignificantBranches ==
    ret.node = 0 => C10_SignificantBranches

\* C13: on every valid SpacedTree, an Arbor or not, edge_length holds for
\* every edge the Euclidean distance between its endpoints' locations, and
\* distance_from_root has an entry for every node: 0 for the root, and the
\* parent's entry plus the edge's length for every child.
C13_LengthsAndDistances ==
    (phase = "called" /\ IsArborescence(tree.graph))
        => /\ ret.op = "edge_length"
                => /\ ret.raised = ""
                   /\ \A e \in tree.graph.edges :
                        /\ EdgeData_key(e) \in DOMAIN ret.edge_data
                        /\ ret.edge_data[EdgeData_key(e)]
                             = Coord_norm(Coord_sub(tree.node_loc[e[1]],
                                                    tree.node_loc[e[2]]))
           /\ ret.op = "distance_from_root"
                => /\ ret.raised = ""
                   /\ DOMAIN ret.value = tree.graph.nodes
                   /\ ret.value[RootOf(tree.graph)] = 0
                   /\ \A e \in tree.graph.edges :
                        ret.value[e[2]] = ret.value[e[1]]
                            + Coord_norm(Coord_sub(tree.node_loc[e[1]],
                                                   tree.node_loc[e[2]]))

\* C13 on the annotated trees
C13_LengthsAndDistancesOfArbors ==
    tree.cls = "Arbor" => C13_LengthsAndDistances

\* the slab of a valid tree from first to last, if it has one
SlabBetween(g, first, last) ==
    {p \in PathEdges(g, last) : p \notin PathEdges(g, first)}

\* C11: topological_copy() of a valid annotated tree with at least one edge
\* returns a tree each of whose edges (first node of a slab, last node of
\* it) carries the minimum of the original confidences over the edges of
\* that slab, and as length the difference of its endpoints' distances from
\* the root.
C11_TopologicalCopyConfidence ==
    (phase = "called" /\ ret.op = "topological_copy" /\ tree.cls = "Arbor"
     /\ IsArborescence(tree.graph) /\ tree.graph.edges # {})
        => /\ ret.raised = ""
           /\ ret.out.graph.edges # {}
           /\ \A e \in ret.out.graph.edges :
                /\ EdgeData_key(e) \in DOMAIN ret.out.edge_confidence
                /\ ret.out.edge_confidence[EdgeData_key(e)] =
                     Min({tree.edge_confidence[EdgeData_key(p)] :
                            p \in SlabBetween(tree.graph, e[1], e[2])})
                /\ EdgeData_key(e) \in DOMAIN ret.edge_data
                /\ ret.edge_data[EdgeData_key(e)] =
                     SpacedTree_distance_from_root(tree).out[e[2]]
                     - SpacedTree_distance_from_root(tree).out[e[1]]

\* C11 read on the trees without an edge: the copy of the single node raises
\* nothing
C11_TopologicalCopyOfOneNode ==
    (phase = "called" /\ ret.op = "topological_copy" /\ tree.cls = "Arbor"
     /\ tree.graph.edges = {})
        => ret.raised = ""

\* the first and last nodes of the slabs of a valid tree: its root, its
\* branches and its leaves
SlabEnds(g) == Roots(g) \cup Branches(g) \cup Leaves(g)

\* C12: resample(l) of a valid spaced tree with at least one edge, for every
\* l > 0, returns a spaced tree in which every slab endpoint of the original
\* is present under its identifier at its location, every other node has an
\* identifier that is not one of the original and lies inside one slab only,
\* and the radii kept are those of the surviving original nodes.
C12_ResampleKeepsEnds ==
    (phase = "called" /\ ret.op = "resample" /\ ret.node > 0
     /\ IsArborescence(tree.graph) /\ tree.graph.edges # {})
        => /\ ret.raised = ""
           /\ ret.out.cls = "SpacedTree"
           /\ \A n \in SlabEnds(tree.graph) :
                /\ n \in ret.out.graph.nodes
                /\ ret.out.node_loc[n] = tree.node_loc[n]
           /\ \A n \in ret.out.graph.nodes \ SlabEnds(tree.graph) :
                /\ n \notin tree.graph.nodes
                /\ Cardinality(Parents(ret.out.graph, n)) = 1
                /\ Cardinality(Children(ret.out.graph, n)) = 1
           /\ ret.out.node_radius =
                [n \in DOMAIN tree.node_radius \cap ret.out.graph.nodes |->
                    tree.node_radius[n]]

\* C12 read on the trees without an edge: resampling the single node raises
\* nothing
C12_ResampleOfOneNode ==
    (phase = "called" /\ ret.op = "resample" /\ tree.graph.edges = {})
        => ret.raised = ""

\* the same edge named the other way round
Swapped(k) == <<k[2], k[1]>>

\* C14: whatever was constructed, set, deleted and updated, every key an
\* EdgeData stores has its smaller identifier first, so no two stored keys
\* name one unordered pair, and (u, v) addresses the slot of (v, u): what
\* was last written under one is read under the other, a lookup or a
\* membership test answers for both alike, and deleting one removes both.
C14_EdgeDataCanonical ==
    phase = "edge_data"
        => /\ \A key \in DOMAIN edata.dict : key[1] <= key[2]
           /\ \A a, b \in DOMAIN edata.dict : {a[1], a[2]} = {b[1], b[2]} => a = b
           /\ \A k \in EdgeKeys :
                /\ EdgeData_contains(edata.dict, k)
                     <=> EdgeData_contains(edata.dict, Swapped(k))
                /\ EdgeData_contains(edata.dict, k)
                     => EdgeData_getitem(edata.dict, k)
                          = EdgeData_getitem(edata.dict, Swapped(k))
           /\ (edata.op \in {"__setitem__", "update"} /\ edata.k # <<0, 0>>)
                => /\ ~EdgeData_getitem_raises(edata.dict, Swapped(edata.k))
                   /\ EdgeData_getitem(edata.dict, Swapped(edata.k)) = edata.out
           /\ (edata.op = "__delitem__" /\ edata.raised = "")
                => /\ ~EdgeData_contains(edata.dict, edata.k)
                   /\ ~EdgeData_contains(edata.dict, Swapped(edata.k))
           /\ (edata.op = "__getitem__" /\ edata.raised = "")
                => /\ EdgeData_contains(edata.dict, Swapped(edata.k))
                   /\ edata.out = EdgeData_getitem(edata.dict, Swapped(edata.k))

\* the value stored for the edge of 1 and 2 was deleted under (2, 1)
C14_Witness ==
    /\ phase = "edge_data"
    /\ edata.op = "__delitem__"
    /\ edata.raised = ""
    /\ edata.k = <<2, 1>>
    /\ DOMAIN edata.dict # {}

\* C15: an annotated tree in which every node has a radius comes back from
\* dict_to_arbor(arbor_to_dict(tree)): the call returns, and the result
\* has the identifier, nodes, edges, locations, radii, edge confidences,
\* connectors and tags of the original.
C15_RoundTrip ==
    (CalledOnTree("dict_to_arbor") /\ DOMAIN tree.node_radius = tree.graph.nodes)
        => /\ ret.raised = ""
           /\ ret.out.id = tree.id
           /\ ret.out.graph.nodes = tree.graph.nodes
           /\ ret.out.graph.edges = tree.graph.edges
           /\ ret.out.node_loc = tree.node_loc
           /\ ret.out.node_radius = tree.node_radius
           /\ ret.out.edge_confidence = tree.edge_confidence
           /\ ret.out.connectors = tree.connectors
           /\ ret.out.tags = tree.tags

\* what the code does instead: the dict has no key "skid", and the call
\* raises KeyError on every annotated tree with radii
C15_RoundTripRaises ==
    (CalledOnTree("dict_to_arbor") /\ DOMAIN tree.node_radius = tree.graph.nodes)
        => ret.raised = "KeyError"

\* the nodes below r that are reached from r without entering a node of S
BelowAvoiding(g, r, S) ==
    Descendants([nodes |-> g.nodes,
                 edges |-> {uv \in g.edges : uv[2] \notin S /\ uv[1] \notin S \ {r}}], r)

\* edges is the depth-first pre-order of the edges into the nodes of below,
\* the children of each node in ascending order: every edge once, each
\* edge followed at once by the edges below its child, siblings ascending
PreOrder(g, edges, below) ==
    /\ Range(edges) = {uv \in g.edges : uv[2] \in below}
    /\ \A i, j \in DOMAIN edges : i # j => edges[i] # edges[j]
    /\ \A i \in DOMAIN edges :
         LET under == Descendants(g, edges[i][2]) \cap below
         IN \A j \in DOMAIN edges :
              edges[j][2] \in under <=> (i < j /\ j <= i + Cardinality(under))
    /\ \A i, j \in DOMAIN edges :
         (i < j /\ edges[i][1] = edges[j][1]) => edges[i][2] < edges[j][2]

\* C17: on a valid tree, for every start node r and stop set S, dfs_edges
\* returns and yields exactly the edges into the nodes reached from r
\* without entering S, each once, in depth-first pre-order with ascending
\* children; no edge has an endpoint outside the subtree below r (the
\* edge from r's parent to r is not yielded), and no node of S other than
\* r is a child.
C17_DfsEdges ==
    (CalledOnTree("dfs_edges") /\ ret.node \in tree.graph.nodes)
        => /\ ret.raised = ""
           /\ PreOrder(tree.graph, ret.edges,
                       BelowAvoiding(tree.graph, ret.node, ret.targets))
           /\ \A i \in DOMAIN ret.edges :
                /\ ret.edges[i][1] \in {ret.node} \cup Descendants(tree.graph, ret.node)
                /\ ret.edges[i][2] \in Descendants(tree.graph, ret.node)
                /\ ret.edges[i][2] \notin ret.targets \ {ret.node}

\* what holds: started at the root of the tree, dfs_edges yields what the
\* claim says
C17_DfsEdgesFromRoot ==
    (CalledOnTree("dfs_edges") /\ ret.node = RootOf(tree.graph)) => C17_DfsEdges

\* and started below the root, it yields the edge from the start's parent
\* first, then what the claim says
C17_DfsEdgesBelowRoot ==
    (CalledOnTree("dfs_edges") /\ ret.node \in tree.graph.nodes
        /\ ret.node # RootOf(tree.graph))
        => /\ ret.raised = ""
           /\ ret.edges # <<>>
           /\ ret.edges[1][2] = ret.node
           /\ PreOrder(tree.graph, Tail(ret.edges),
                       BelowAvoiding(tree.graph, ret.node, ret.targets))

\* the branch nodes strictly above n
BranchesAbove(g, n) == Ancestors(g, n) \cap Branches(g)

\* the nearest of them: the one below all the others
NearestBranchAbove(g, n) ==
    CHOOSE b \in BranchesAbove(g, n) : BranchesAbove(g, n) \ {b} \subseteq Ancestors(g, b)

\* the child-subtree of n's nearest branch above that contains n: that
\* child, which is n or above n, and everything below it
BranchContaining(g, n) ==
    LET top == CHOOSE c \in Children(g, NearestBranchAbove(g, n)) :
                   c = n \/ c \in Ancestors(g, n)
    IN {top} \cup Descendants(g, top)

\* what the given nodes of the last call remove together
Gone ==
    UNION {BranchContaining(tree.graph, n) :
             n \in {m \in ret.targets : BranchesAbove(tree.graph, m) # {}}}

\* C18: on a valid tree, prune_branches_containing(nodes) for nodes of the
\* tree returns the tree without, for each given node that has a branch
\* node strictly above it, the child-subtree of the nearest such branch
\* that contains the node; everything outside those subtrees stays, with
\* the edges between what stays; the nearest branch above a given node
\* stays unless it lies in the subtree removed for another given node; and
\* given nodes with no branch above them (the root included) remove nothing.
C18_PruneBranchesContaining ==
    (CalledOnTree("prune_branches_containing") /\ ret.targets \subseteq tree.graph.nodes)
        => LET g == tree.graph
           IN /\ ret.raised = ""
              /\ ret.out.graph.nodes = g.nodes \ Gone
              /\ ret.out.graph.edges
                   = {uv \in g.edges : uv[1] \notin Gone /\ uv[2] \notin Gone}
              /\ \A n \in ret.targets :
                   (BranchesAbove(g, n) # {} /\ NearestBranchAbove(g, n) \notin Gone)
                       => NearestBranchAbove(g, n) \in ret.out.graph.nodes
              /\ (\A n \in ret.targets : BranchesAbove(g, n) = {})
                       => /\ ret.out.graph.nodes = g.nodes
                          /\ ret.out.graph.edges = g.edges

\* C18 as stated: the same, with the nearest branch above every given node
\* staying in the result whatever the other given nodes are
C18_PruneBranchesContainingAsStated ==
    (CalledOnTree("prune_branches_containing") /\ ret.targets \subseteq tree.graph.nodes)
        => /\ C18_PruneBranchesContaining
           /\ \A n \in ret.targets :
                BranchesAbove(tree.graph, n) # {}
                    => NearestBranchAbove(tree.graph, n) \in ret.out.graph.nodes

\* a given node two edges below its nearest branch went with the node
\* between them, and the branch stayed with its other child
C18_Witness ==
    /\ CalledOnTree("prune_branches_containing")
    /\ ret.raised = ""
    /\ \E n \in ret.targets :
         /\ n \in tree.graph.nodes
         /\ BranchesAbove(tree.graph, n) # {}
         /\ Parents(tree.graph, n) \cap Branches(tree.graph) = {}
         /\ n \notin ret.out.graph.nodes
         /\ NearestBranchAbove(tree.graph, n) \in ret.out.graph.nodes

\* the methods that return a changed copy of the instance
Transformations ==
    {"reroot", "copy", "copy_below", "cut", "prune_at", "prune_branches_containing",
     "topological_copy"}

\* C16: a transformation of a valid tree, whether it returns or raises,
\* leaves the instance it is called on with the nodes, edges, locations,
\* radii and edge confidences it had before the call, and no instance it
\* returns holds the DiGraph object of the original, through which a
\* later change to one would show in the other.
C16_NoMutationNoSharing ==
    [][(phase = "ready" /\ phase' = "called" /\ ret'.op \in Transformations
            /\ IsArborescence(tree.graph))
        => /\ tree'.graph.nodes = tree.graph.nodes
           /\ tree'.graph.edges = tree.graph.edges
           /\ tree'.node_loc = tree.node_loc
           /\ tree'.node_radius = tree.node_radius
           /\ tree'.edge_confidence = tree.edge_confidence
           /\ \A h \in ResultGraphs(ret') : h.obj # tree.graph.obj
           /\ \A h \in ResultGraphs(ret') : h.obj # graph.obj]_vars

\* reroot at a node below the root returned a tree with other edges than
\* the original, which kept its own
C16_Witness ==
    /\ CalledOnTree("reroot")
    /\ ret.raised = ""
    /\ ret.node # RootOf(tree.graph)
    /\ ret.out.graph.nodes = tree.graph.nodes
    /\ ret.out.graph.edges # tree.graph.edges
    /\ ret.out.graph.obj # tree.graph.obj

====
